---- MODULE Spec2Model ----
(***************************************************************************)
(* Model of kitwork/pipe: the template Preprocessor (lexer, ternary        *)
(* desugarer, shunting-yard parser, pipeline generator, variable           *)
(* rewriter) and the operator runtime (Add, Sub, Mul, Div, Nullish).       *)
(*                                                                         *)
(* Text is a sequence of one-character strings; indices named as in the Go *)
(* source are 0-based and are shifted by one where a sequence is read.     *)
(***************************************************************************)
EXTENDS Integers, Sequences, FiniteSets, TLC

VARIABLES tmpl, start, idx, endIdx, result, pc, rawExpr, expr, i, tokens,
          rpn, newExpr, emitted, path, shape, vals, ret

vars == <<tmpl, start, idx, endIdx, result, pc, rawExpr, expr, i, tokens,
          rpn, newExpr, emitted, path, shape, vals, ret>>

(***************************************************************************)
(* Bounds of the model.                                                    *)
(***************************************************************************)
\* lexemes in an enumerated placeholder interior
MaxLex == 3
\* tokens the lexer may emit before the model stops following it
MaxTokens == 10
\* operands of an enumerated arithmetic expression
MaxOperands == 3
\* arguments of a direct call of a runtime function
MaxArgs == 3

(***************************************************************************)
(* Character classes (unicode.IsSpace / IsDigit / IsLetter, regexp \w),    *)
(* over the ASCII characters the model's inputs are made of.               *)
(***************************************************************************)
Digits == {"0", "1", "2", "3", "4", "5", "6", "7", "8", "9"}

Letters ==
    {"a", "b", "c", "d", "e", "f", "g", "h", "i", "j", "k", "l", "m",
     "n", "o", "p", "q", "r", "s", "t", "u", "v", "w", "x", "y", "z",
     "A", "B", "C", "D", "E", "F", "G", "H", "I", "J", "K", "L", "M",
     "N", "O", "P", "Q", "R", "S", "T", "U", "V", "W", "X", "Y", "Z"}

IsSpace(ch) == ch \in {" ", "\t", "\n", "\r"}

IsDigit(ch) == ch \in Digits

IsLetter(ch) == ch \in Letters

IsWord(ch) == ch \in Letters \cup Digits \cup {"_"}

(***************************************************************************)
(* Go string helpers.                                                      *)
(***************************************************************************)
\* s[from:] with a 0-based from
Suffix(s, from) == SubSeq(s, from + 1, Len(s))

\* s[from:to] with 0-based bounds
Slice(s, from, to) == SubSeq(s, from + 1, to)

HasPrefix(s, p) == Len(s) >= Len(p) /\ SubSeq(s, 1, Len(p)) = p

\* strings.Index: 0-based index of the first occurrence of sub in s, or -1
Index(s, sub) ==
    LET hits == {k \in 0..(Len(s) - Len(sub)) : Slice(s, k, k + Len(sub)) = sub}
    IN  IF hits = {} THEN -1 ELSE CHOOSE k \in hits : \A m \in hits : k <= m

ContainsAny(s, chars) == \E k \in 1..Len(s) : s[k] \in chars

RECURSIVE TrimLeft(_)
TrimLeft(s) == IF s # <<>> /\ IsSpace(Head(s)) THEN TrimLeft(Tail(s)) ELSE s

RECURSIVE TrimRight(_)
TrimRight(s) ==
    IF s # <<>> /\ IsSpace(s[Len(s)]) THEN TrimRight(SubSeq(s, 1, Len(s) - 1)) ELSE s

TrimSpace(s) == TrimRight(TrimLeft(s))

\* strings.ReplaceAll: non-overlapping occurrences, left to right
RECURSIVE ReplaceAll(_, _, _)
ReplaceAll(s, old, new) ==
    IF s = <<>> THEN <<>>
    ELSE IF HasPrefix(s, old) THEN new \o ReplaceAll(Suffix(s, Len(old)), old, new)
    ELSE <<Head(s)>> \o ReplaceAll(Tail(s), old, new)

\* the concatenation of a sequence of texts
RECURSIVE Concat(_)
Concat(ss) == IF ss = <<>> THEN <<>> ELSE Head(ss) \o Concat(Tail(ss))

(***************************************************************************)
(* Tokens and the operator table.                                          *)
(***************************************************************************)
Num == "num"

Var == "var"

Op == "op"

Paren == "paren"

Tern == "tern"

Token(typ, value) == [typ |-> typ, value |-> value]

OpMapKeys ==
    {<<"+">>, <<"-">>, <<"*">>, <<"/">>, <<"=", "=">>, <<"!", "=">>, <<">">>,
     <<"<">>, <<">", "=">>, <<"<", "=">>, <<"&", "&">>, <<"|", "|">>, <<"!">>,
     <<"?", "?">>, <<"?">>}

opMap(op) ==
    CASE op = <<"+">> -> <<"a", "d", "d">>
      [] op = <<"-">> -> <<"s", "u", "b">>
      [] op = <<"*">> -> <<"m", "u", "l">>
      [] op = <<"/">> -> <<"d", "i", "v">>
      [] op = <<"=", "=">> -> <<"e", "q">>
      [] op = <<"!", "=">> -> <<"n", "e">>
      [] op = <<">">> -> <<"g", "t">>
      [] op = <<"<">> -> <<"l", "t">>
      [] op = <<">", "=">> -> <<"g", "t", "e">>
      [] op = <<"<", "=">> -> <<"l", "t", "e">>
      [] op = <<"&", "&">> -> <<"a", "n", "d">>
      [] op = <<"|", "|">> -> <<"o", "r">>
      [] op = <<"!">> -> <<"n", "o", "t">>
      [] op = <<"?", "?">> -> <<"n", "u", "l", "l", "i", "s", "h">>
      [] op = <<"?">> -> <<"t", "e", "r", "n">>

\* a symbol missing from the Go map reads as 0
precedence(op) ==
    CASE op = <<"!">> -> 6
      [] op \in {<<"*">>, <<"/">>} -> 5
      [] op \in {<<"+">>, <<"-">>} -> 4
      [] op \in {<<">">>, <<"<">>, <<">", "=">>, <<"<", "=">>,
                 <<"=", "=">>, <<"!", "=">>} -> 3
      [] op = <<"&", "&">> -> 2
      [] op = <<"|", "|">> -> 1
      [] OTHER -> 0

TwoCharOps ==
    {<<"=", "=">>, <<"!", "=">>, <<">", "=">>, <<"<", "=">>, <<"&", "&">>,
     <<"|", "|">>, <<"?", "?">>}

SingleCharOps == {"+", "-", "*", "/", ">", "<", "!", ":", "?"}

(***************************************************************************)
(* tokenize.                                                               *)
(***************************************************************************)
\* the number loop: the index after the literal that starts at k
RECURSIVE ScanNumber(_, _, _)
ScanNumber(e, k, hasDot) ==
    IF k < Len(e) /\ (IsDigit(e[k + 1]) \/ (~hasDot /\ e[k + 1] = "."))
    THEN ScanNumber(e, k + 1, hasDot \/ e[k + 1] = ".")
    ELSE k

\* the identifier loop: the index after the identifier that starts at k
RECURSIVE ScanIdent(_, _)
ScanIdent(e, k) ==
    IF k < Len(e) /\ (IsLetter(e[k + 1]) \/ IsDigit(e[k + 1])
                      \/ e[k + 1] = "_" \/ e[k + 1] = ".")
    THEN ScanIdent(e, k + 1)
    ELSE k

\* one iteration of tokenize's loop at index k (k < Len(e))
tokenizeStep(e, k, toks) ==
    LET ch == e[k + 1] IN
    IF IsSpace(ch) THEN [i |-> k + 1, tokens |-> toks]
    ELSE IF ch = "(" \/ ch = ")"
    THEN [i |-> k + 1, tokens |-> Append(toks, Token(Paren, <<ch>>))]
    ELSE IF k + 1 < Len(e) /\ Slice(e, k, k + 2) \in TwoCharOps
    THEN [i |-> k + 2, tokens |-> Append(toks, Token(Op, Slice(e, k, k + 2)))]
    ELSE IF ch \in SingleCharOps
    THEN [i |-> k + 1, tokens |-> Append(toks, Token(Op, <<ch>>))]
    ELSE IF IsDigit(ch)
    THEN LET j == ScanNumber(e, k, FALSE)
         IN  [i |-> j, tokens |-> Append(toks, Token(Num, Slice(e, k, j)))]
    ELSE IF IsLetter(ch) \/ ch = "_" \/ ch = "$"
    THEN LET j == ScanIdent(e, k)
         IN  [i |-> j, tokens |-> Append(toks, Token(Var, Slice(e, k, j)))]
    ELSE [i |-> k + 1, tokens |-> Append(toks, Token(Var, <<ch>>))]

\* the loop run to its end from index k
RECURSIVE tokenizeFrom(_, _, _)
tokenizeFrom(e, k, toks) ==
    IF k < Len(e)
    THEN LET s == tokenizeStep(e, k, toks) IN tokenizeFrom(e, s.i, s.tokens)
    ELSE toks

tokenize(e) == tokenizeFrom(e, 0, <<>>)

(***************************************************************************)
(* tokensToString and parseTernary.                                        *)
(***************************************************************************)
RECURSIVE tokensToString(_)
tokensToString(ts) ==
    IF ts = <<>> THEN <<>>
    ELSE IF Len(ts) = 1 THEN ts[1].value
    ELSE ts[1].value \o <<" ">> \o tokensToString(Tail(ts))

IsOpTok(t, sym) == t.typ = Op /\ t.value = sym

\* the scan for the matching ':' from index j: its index, or Len(ts) if none
RECURSIVE FindColon(_, _, _)
FindColon(ts, j, depth) ==
    IF j >= Len(ts) THEN j
    ELSE IF IsOpTok(ts[j + 1], <<"?">>) THEN FindColon(ts, j + 1, depth + 1)
    ELSE IF IsOpTok(ts[j + 1], <<":">>)
    THEN IF depth = 0 THEN j ELSE FindColon(ts, j + 1, depth - 1)
    ELSE FindColon(ts, j + 1, depth)

TernText(cond, tb, fb) ==
    <<"t", "e", "r", "n", "(">> \o cond \o <<",">> \o tb \o <<",">> \o fb \o <<")">>

RECURSIVE parseTernaryFrom(_, _, _)
parseTernaryFrom(ts, k, out) ==
    IF k >= Len(ts) THEN out
    ELSE IF IsOpTok(ts[k + 1], <<"?">>)
    THEN IF out = <<>>
         THEN parseTernaryFrom(ts, k + 1, Append(out, ts[k + 1]))
         ELSE LET cond == out[Len(out)]
                  rest == SubSeq(out, 1, Len(out) - 1)
                  j == FindColon(ts, k + 1, 0)
              IN  IF j >= Len(ts)
                  THEN Append(rest, cond) \o Suffix(ts, k)
                  ELSE Append(rest,
                              Token(Tern, TernText(cond.value,
                                                   tokensToString(Slice(ts, k + 1, j)),
                                                   tokensToString(Suffix(ts, j + 1)))))
    ELSE parseTernaryFrom(ts, k + 1, Append(out, ts[k + 1]))

parseTernary(ts) == parseTernaryFrom(ts, 0, <<>>)

(***************************************************************************)
(* toRPN (shunting yard).                                                  *)
(***************************************************************************)
Top(stack) == stack[Len(stack)]

Pop(stack) == SubSeq(stack, 1, Len(stack) - 1)

\* the ')' loops: pop to the output until a "(" is on top, then drop that "("
RECURSIVE PopToParen(_, _)
PopToParen(out, stack) ==
    IF Len(stack) > 0 /\ Top(stack).value # <<"(">>
    THEN PopToParen(Append(out, Top(stack)), Pop(stack))
    ELSE IF Len(stack) > 0 /\ Top(stack).value = <<"(">>
    THEN [out |-> out, stack |-> Pop(stack)]
    ELSE [out |-> out, stack |-> stack]

\* the operator loop: pop operators of higher or equal precedence, then push tok
RECURSIVE PopOps(_, _, _)
PopOps(out, stack, tok) ==
    IF Len(stack) > 0 /\ Top(stack).typ = Op
       /\ precedence(Top(stack).value) >= precedence(tok.value)
    THEN PopOps(Append(out, Top(stack)), Pop(stack), tok)
    ELSE [out |-> out, stack |-> Append(stack, tok)]

\* the final loop: the rest of the stack in pop order
RECURSIVE Drain(_, _)
Drain(out, stack) ==
    IF Len(stack) > 0 THEN Drain(Append(out, Top(stack)), Pop(stack)) ELSE out

RECURSIVE toRPNFrom(_, _, _, _)
toRPNFrom(ts, k, out, stack) ==
    IF k > Len(ts) THEN Drain(out, stack)
    ELSE LET tok == ts[k] IN
         IF tok.typ \in {Var, Num, Tern}
         THEN toRPNFrom(ts, k + 1, Append(out, tok), stack)
         ELSE IF tok.typ = Op
         THEN IF tok.value = <<"(">>
              THEN toRPNFrom(ts, k + 1, out, Append(stack, tok))
              ELSE IF tok.value = <<")">>
              THEN LET s == PopToParen(out, stack)
                   IN  toRPNFrom(ts, k + 1, s.out, s.stack)
              ELSE LET s == PopOps(out, stack, tok)
                   IN  toRPNFrom(ts, k + 1, s.out, s.stack)
         ELSE IF tok.typ = Paren
         THEN IF tok.value = <<"(">>
              THEN toRPNFrom(ts, k + 1, out, Append(stack, tok))
              ELSE LET s == PopToParen(out, stack)
                   IN  toRPNFrom(ts, k + 1, s.out, s.stack)
         ELSE toRPNFrom(ts, k + 1, out, stack)

toRPN(ts) == toRPNFrom(ts, 1, <<>>, <<>>)

(***************************************************************************)
(* rpnToPipeline.                                                          *)
(***************************************************************************)
PIPE == <<" ", "|", " ">>

\* fmt.Sprintf("%s | %s", a, fn)
UnaryStage(a, fn) == a \o PIPE \o fn

\* a generator that takes the operands in pop order: `b | fn a`
BinaryStageSwapped(a, fn, b) == b \o PIPE \o fn \o <<" ">> \o a

\* fmt.Sprintf("%s | %s %s", a, fn, b)
BinaryStage(a, fn, b) == a \o PIPE \o fn \o <<" ">> \o b

\* The walk over the RPN tokens: the text stack it ends with, and which
\* return of `original` ended it early ("none" when the walk reached the end).
RECURSIVE rpnWalk(_, _, _)
rpnWalk(r, k, stack) ==
    IF k > Len(r) THEN [stack |-> stack, abort |-> "none"]
    ELSE LET tok == r[k] IN
         IF tok.typ \in {Var, Num}
         THEN rpnWalk(r, k + 1, Append(stack, tok.value))
         ELSE IF tok.typ = Op
         THEN IF tok.value \notin OpMapKeys
              THEN [stack |-> stack, abort |-> "unknown"]
              ELSE IF tok.value = <<"!">>
              THEN IF Len(stack) < 1
                   THEN [stack |-> stack, abort |-> "underflow"]
                   ELSE rpnWalk(r, k + 1,
                                Append(Pop(stack),
                                       UnaryStage(Top(stack), opMap(tok.value))))
              ELSE IF Len(stack) < 2
                   THEN [stack |-> stack, abort |-> "underflow"]
                   ELSE rpnWalk(r, k + 1,
                                Append(Pop(Pop(stack)),
                                       BinaryStage(Top(Pop(stack)), opMap(tok.value),
                                                   Top(stack))))
         ELSE [stack |-> stack, abort |-> "default"]

\* a generator that gives up with an empty text instead of `original`
rpnToPipelineNoFallback(r) ==
    LET w == rpnWalk(r, 1, <<>>)
    IN  IF w.abort # "none" \/ Len(w.stack) # 1 THEN <<>> ELSE w.stack[1]

rpnToPipeline(r) ==
    LET original == tokensToString(r)
        w == rpnWalk(r, 1, <<>>)
    IN  IF w.abort # "none" THEN original
        ELSE IF Len(w.stack) # 1 THEN original
        ELSE w.stack[1]

(***************************************************************************)
(* replaceVars.                                                            *)
(***************************************************************************)
\* \w+ from index k: the index after the run of word characters
RECURSIVE ScanWord(_, _)
ScanWord(e, k) == IF k < Len(e) /\ IsWord(e[k + 1]) THEN ScanWord(e, k + 1) ELSE k

\* (?:\.\w+)* from index k, greedy
RECURSIVE ScanPath(_, _)
ScanPath(e, k) ==
    IF k < Len(e) /\ e[k + 1] = "." /\ ScanWord(e, k + 1) > k + 1
    THEN ScanPath(e, ScanWord(e, k + 1))
    ELSE k

\* the end of a match of \$(\w+(?:\.\w+)*) starting at index k, or -1
MatchEnd(e, k) ==
    IF k < Len(e) /\ e[k + 1] = "$" /\ ScanWord(e, k + 1) > k + 1
    THEN ScanPath(e, ScanWord(e, k + 1))
    ELSE -1

\* re.FindAllStringIndex(expr, -1): the <<start, end>> pairs, in order
RECURSIVE FindAllFrom(_, _)
FindAllFrom(e, k) ==
    IF k >= Len(e) THEN <<>>
    ELSE IF MatchEnd(e, k) # -1
    THEN <<<<k, MatchEnd(e, k)>>>> \o FindAllFrom(e, MatchEnd(e, k))
    ELSE FindAllFrom(e, k + 1)

FindAllStringIndex(e) == FindAllFrom(e, 0)

VARS == <<"V", "a", "r", "s", ".">>

IsAssignment(after) ==
    \/ HasPrefix(after, <<":", "=">>)
    \/ HasPrefix(after, <<"=">>)
    \/ HasPrefix(after, <<":">>)

\* the loop over the matches, from match m on
RECURSIVE replaceVarsFrom(_, _, _, _, _)
replaceVarsFrom(e, matches, m, last, out) ==
    IF m > Len(matches) THEN out \o Suffix(e, last)
    ELSE LET s == matches[m][1]
             en == matches[m][2]
             ref == Slice(e, s, en)
             key == Tail(ref)
             after == IF en < Len(e) THEN Suffix(e, en) ELSE <<>>
             piece == IF IsAssignment(after) THEN ref ELSE VARS \o key
         IN  replaceVarsFrom(e, matches, m + 1, en, out \o Slice(e, last, s) \o piece)

replaceVars(e) ==
    LET matches == FindAllStringIndex(e)
    IN  IF Len(matches) = 0 THEN e ELSE replaceVarsFrom(e, matches, 1, 0, <<>>)

(***************************************************************************)
(* Runtime values.  A reflect.Value is a record of one shape: kind, and    *)
(* the payload of that kind (n/d: a number as a fraction in lowest terms   *)
(* with d > 0; s: a string; b: a boolean).  Numbers are exact rationals:   *)
(* the model does not round as float64 does.                               *)
(***************************************************************************)
Abs(x) == IF x < 0 THEN -x ELSE x

RECURSIVE GCD(_, _)
GCD(a, b) == IF b = 0 THEN a ELSE GCD(b, a % b)

\* the fraction n/d (d # 0) in lowest terms with a positive denominator
Frac(n, d) ==
    LET g == GCD(Abs(n), Abs(d))
        sgn == IF d < 0 THEN -1 ELSE 1
    IN  <<sgn * (n \div g), sgn * (d \div g)>>

Zero == <<0, 1>>

FAdd(x, y) == Frac(x[1] * y[2] + y[1] * x[2], x[2] * y[2])

FSub(x, y) == Frac(x[1] * y[2] - y[1] * x[2], x[2] * y[2])

FMul(x, y) == Frac(x[1] * y[1], x[2] * y[2])

\* y # Zero
FDiv(x, y) == Frac(x[1] * y[2], x[2] * y[1])

Value(kind, n, d, s, b) == [kind |-> kind, n |-> n, d |-> d, s |-> s, b |-> b]

\* RV(float64): the reflect.Value of a float
RV(x) == Value("num", x[1], x[2], <<>>, FALSE)

StrV(s) == Value("str", 0, 1, s, FALSE)

BoolV(b) == Value("bool", 0, 1, <<>>, b)

\* the zero reflect.Value (reflect.Value{}): IsValid() is false
Invalid == Value("invalid", 0, 1, <<>>, FALSE)

\* the outcome of a call that panics
Panic == Value("panic", 0, 1, <<>>, FALSE)

\* the outcome of a template the host engine cannot run
RenderError == Value("error", 0, 1, <<>>, FALSE)

IsValid(v) == v.kind # "invalid"

\* reflect.Value.IsZero, which panics on the zero Value
IsZeroPanics(v) == v.kind = "invalid"

IsZero(v) ==
    CASE v.kind = "num" -> v.n = 0
      [] v.kind = "str" -> v.s = <<>>
      [] v.kind = "bool" -> ~v.b
      [] OTHER -> FALSE

DigitValue(ch) ==
    CASE ch = "0" -> 0 [] ch = "1" -> 1 [] ch = "2" -> 2 [] ch = "3" -> 3
      [] ch = "4" -> 4 [] ch = "5" -> 5 [] ch = "6" -> 6 [] ch = "7" -> 7
      [] ch = "8" -> 8 [] ch = "9" -> 9

\* an unsigned decimal literal: digits with at most one '.', one digit at least
IsNumberText(s) ==
    /\ \E k \in 1..Len(s) : IsDigit(s[k])
    /\ \A k \in 1..Len(s) : IsDigit(s[k]) \/ s[k] = "."
    /\ Cardinality({k \in 1..Len(s) : s[k] = "."}) <= 1

\* the digits of s as <<numerator, denominator>>, read left to right
RECURSIVE ReadDigits(_, _, _, _)
ReadDigits(s, n, d, seenDot) ==
    IF s = <<>> THEN Frac(n, d)
    ELSE IF Head(s) = "." THEN ReadDigits(Tail(s), n, d, TRUE)
    ELSE ReadDigits(Tail(s), 10 * n + DigitValue(Head(s)),
                    IF seenDot THEN 10 * d ELSE d, seenDot)

NumberOf(s) == ReadDigits(s, 0, 1, FALSE)

\* the coercion of an operand to float64: a number is itself, a string is the
\* number it spells, anything unparseable or absent is 0
toFloatRV(v) ==
    CASE v.kind = "num" -> <<v.n, v.d>>
      [] v.kind = "str" /\ IsNumberText(v.s) -> NumberOf(v.s)
      [] OTHER -> Zero

(***************************************************************************)
(* The operator runtime: Add, Sub, Mul, Div, Nullish.                      *)
(***************************************************************************)
\* the loop of Add from operand k on (k is the Go index plus one)
RECURSIVE AddFrom(_, _, _)
AddFrom(vs, k, left) ==
    IF k > Len(vs) - 1 THEN left ELSE AddFrom(vs, k + 1, FAdd(left, toFloatRV(vs[k])))

Add(vs) ==
    IF Len(vs) = 0 THEN RV(Zero) ELSE RV(AddFrom(vs, 1, toFloatRV(vs[Len(vs)])))

RECURSIVE SubFrom(_, _, _)
SubFrom(vs, k, left) ==
    IF k > Len(vs) - 1 THEN left ELSE SubFrom(vs, k + 1, FSub(left, toFloatRV(vs[k])))

Sub(vs) ==
    IF Len(vs) = 0 THEN RV(Zero) ELSE RV(SubFrom(vs, 1, toFloatRV(vs[Len(vs)])))

RECURSIVE MulFrom(_, _, _)
MulFrom(vs, k, left) ==
    IF k > Len(vs) - 1 THEN left ELSE MulFrom(vs, k + 1, FMul(left, toFloatRV(vs[k])))

Mul(vs) ==
    IF Len(vs) = 0 THEN RV(Zero) ELSE RV(MulFrom(vs, 1, toFloatRV(vs[Len(vs)])))

\* a division loop that skips a zero divisor instead of returning 0
RECURSIVE DivSkippingZero(_, _, _)
DivSkippingZero(vs, k, left) ==
    IF k > Len(vs) - 1 THEN left
    ELSE IF toFloatRV(vs[k]) = Zero THEN DivSkippingZero(vs, k + 1, left)
    ELSE DivSkippingZero(vs, k + 1, FDiv(left, toFloatRV(vs[k])))

DivSkipZero(vs) ==
    IF Len(vs) = 0 THEN RV(Zero) ELSE RV(DivSkippingZero(vs, 1, toFloatRV(vs[Len(vs)])))

\* a zero divisor returns 0 at once
RECURSIVE DivFrom(_, _, _)
DivFrom(vs, k, left) ==
    IF k > Len(vs) - 1 THEN left
    ELSE IF toFloatRV(vs[k]) = Zero THEN Zero
    ELSE DivFrom(vs, k + 1, FDiv(left, toFloatRV(vs[k])))

Div(vs) ==
    IF Len(vs) = 0 THEN RV(Zero) ELSE RV(DivFrom(vs, 1, toFloatRV(vs[Len(vs)])))

\* vals[0].IsZero() is evaluated before !vals[0].IsValid(); an index past the
\* end of vals panics
Nullish(vs) ==
    IF Len(vs) < 1 THEN Panic
    ELSE IF IsZeroPanics(vs[1]) THEN Panic
    ELSE IF IsZero(vs[1]) \/ ~IsValid(vs[1])
    THEN IF Len(vs) < 2 THEN Panic ELSE vs[2]
    ELSE vs[1]

(***************************************************************************)
(* The host engine's evaluation of a pipeline `base | fn arg ... | ...`:   *)
(* stage by stage, left to right, the running value passed to each stage's *)
(* function as its last operand.                                           *)
(***************************************************************************)
\* the pieces of s between the occurrences of sep
RECURSIVE SplitFrom(_, _, _)
SplitFrom(s, sep, cur) ==
    IF s = <<>> THEN <<cur>>
    ELSE IF HasPrefix(s, sep) THEN <<cur>> \o SplitFrom(Suffix(s, Len(sep)), sep, <<>>)
    ELSE SplitFrom(Tail(s), sep, Append(cur, Head(s)))

Split(s, sep) == SplitFrom(s, sep, <<>>)

Operand(text) == IF IsNumberText(text) THEN RV(NumberOf(text)) ELSE RenderError

FuncNames == {<<"a", "d", "d">>, <<"s", "u", "b">>, <<"m", "u", "l">>, <<"d", "i", "v">>}

CallFunc(fn, args) ==
    CASE fn = <<"a", "d", "d">> -> Add(args)
      [] fn = <<"s", "u", "b">> -> Sub(args)
      [] fn = <<"m", "u", "l">> -> Mul(args)
      [] fn = <<"d", "i", "v">> -> Div(args)

\* one stage `fn arg ...` applied to the running value acc
RunStage(stage, acc) ==
    LET words == Split(stage, <<" ">>)
        args == [k \in 1..(Len(words) - 1) |-> Operand(words[k + 1])]
    IN  IF acc = RenderError \/ words[1] \notin FuncNames
           \/ \E k \in 1..Len(args) : args[k] = RenderError
        THEN RenderError
        ELSE CallFunc(words[1], Append(args, acc))

RECURSIVE RunStages(_, _, _)
RunStages(stages, k, acc) ==
    IF k > Len(stages) THEN acc ELSE RunStages(stages, k + 1, RunStage(stages[k], acc))

Render(text) ==
    LET stages == Split(text, PIPE) IN RunStages(stages, 2, Operand(stages[1]))

(***************************************************************************)
(* Preprocessor: the inputs of the model.                                  *)
(***************************************************************************)
OPEN == <<"{", "{">>

CLOSE == <<"}", "}">>

ROOTVARS == <<"$", ".", "V", "a", "r", "s", ".">>

OperatorChars == {"+", "-", "*", "/", ">", "<", "=", "!", "&", "|", "?", ":"}

\* the sequences over S of length at most n
SeqsUpTo(S, n) == UNION {[1..k -> S] : k \in 0..n}

\* the pieces a placeholder interior is enumerated from
ExprLexemes ==
    {<<"1">>, <<"x">>, <<"$", "a">>, <<"$">>, VARS, <<".">>, <<"+">>, <<":">>,
     <<"?">>, <<"=">>, <<"!">>, <<" ">>, <<"(">>, <<")">>}

\* the pieces a whole template is enumerated from
FrameLexemes == {OPEN, CLOSE, <<"a">>, <<"}">>, <<" ", "x", " ">>, <<"+", "1">>}

ExprTemplates == {OPEN \o Concat(ls) \o CLOSE : ls \in SeqsUpTo(ExprLexemes, MaxLex)}

FrameTemplates == {Concat(ls) : ls \in SeqsUpTo(FrameLexemes, MaxLex + 1)}

Blank == {<<>>, <<" ">>}

\* declarations `$a := 1`, with and without the spaces
DeclTemplates ==
    {OPEN \o s1 \o <<"$", "a">> \o s2 \o m \o s3 \o <<"1">> \o CLOSE :
        s1 \in Blank, s2 \in Blank, s3 \in Blank,
        m \in {<<":", "=">>, <<"=">>, <<":">>}}

\* a ternary after a binary operator, `1 + 2 ? 3 : 4`
TernTemplates ==
    {OPEN \o x \o <<" ">> \o op \o <<" ", "2", " ", "?", " ">> \o t \o <<" ", ":", " ", "4">> \o CLOSE :
        x \in {<<"1">>, <<"x">>}, op \in {<<"+">>, <<"*">>, <<"&", "&">>, <<"!">>},
        t \in {<<"3">>, <<"y", " ", "+", " ", "3">>}}

PairInteriors ==
    {<<"+", "1">>, <<"1", "+", "x">>, <<"1", ":", "x">>, <<"x">>, <<"$", "a">>,
     <<"(", "1", "*", "x", ")", "-">>}

\* two placeholders, the second closed or not
PairTemplates ==
    {OPEN \o e1 \o CLOSE \o mid \o OPEN \o e2 \o end :
        e1 \in PairInteriors, e2 \in PairInteriors, mid \in {<<>>, <<"a">>},
        end \in {CLOSE, <<>>}}

Templates ==
    ExprTemplates \cup FrameTemplates \cup DeclTemplates \cup TernTemplates
        \cup PairTemplates

NoShape == [mode |-> "none", xs |-> <<>>, ops |-> <<>>, lp |-> 0, rp |-> 0, sp |-> FALSE]

(***************************************************************************)
(* Preprocessor: one action per path through an iteration of its loop,     *)
(* the call of tokenize followed one loop iteration at a time.             *)
(***************************************************************************)
Init ==
    /\ tmpl \in Templates
    /\ start = 0
    /\ idx = 0
    /\ endIdx = 0
    /\ result = <<>>
    /\ pc = "scan"
    /\ rawExpr = <<>>
    /\ expr = <<>>
    /\ i = 0
    /\ tokens = <<>>
    /\ rpn = <<>>
    /\ newExpr = <<>>
    /\ emitted = <<>>
    /\ path = "none"
    /\ shape = NoShape
    /\ vals = <<>>
    /\ ret = Invalid

\* strings.Index(tmpl[start:], "{{")
OpenAt == Index(Suffix(tmpl, start), OPEN)

\* strings.Index(tmpl[start+idx:], "}}"), for idx = OpenAt
CloseAt == Index(Suffix(tmpl, start + OpenAt), CLOSE)

\* strings.TrimSpace(tmpl[start+idx+2 : start+idx+endIdx])
Interior == TrimSpace(Slice(tmpl, start + OpenAt + 2, start + OpenAt + CloseAt))

Wrap(text) == OPEN \o <<" ">> \o text \o <<" ">> \o CLOSE

\* a start that is not moved past the closing "}}"
NextStartShort(s, ix, eix) == s + ix + eix

NextStart(s, ix, eix) == s + ix + eix + 2

EvalUnchanged == UNCHANGED <<shape, vals, ret>>

\* no "{{" is left: the rest is copied and the loop ends
ScanText ==
    /\ pc = "scan"
    /\ start < Len(tmpl)
    /\ OpenAt = -1
    /\ idx' = -1
    /\ result' = result \o Suffix(tmpl, start)
    /\ pc' = "done"
    /\ UNCHANGED <<tmpl, start, endIdx, rawExpr, expr, i, tokens, rpn, newExpr,
                   emitted, path>>
    /\ EvalUnchanged

\* a "{{" with no "}}" after it: it is copied with all that follows
ScanUnclosed ==
    /\ pc = "scan"
    /\ start < Len(tmpl)
    /\ OpenAt # -1
    /\ CloseAt = -1
    /\ idx' = OpenAt
    /\ endIdx' = -1
    /\ result' = result \o Slice(tmpl, start, start + OpenAt)
                        \o Suffix(tmpl, start + OpenAt)
    /\ pc' = "done"
    /\ UNCHANGED <<tmpl, start, rawExpr, expr, i, tokens, rpn, newExpr, emitted, path>>
    /\ EvalUnchanged

\* a placeholder whose rewritten expression holds no operator character
ScanPlain ==
    /\ pc = "scan"
    /\ start < Len(tmpl)
    /\ OpenAt # -1
    /\ CloseAt # -1
    /\ ~ContainsAny(replaceVars(Interior), OperatorChars)
    /\ idx' = OpenAt
    /\ endIdx' = CloseAt
    /\ rawExpr' = Interior
    /\ expr' = ReplaceAll(replaceVars(Interior), VARS, ROOTVARS)
    /\ result' = result \o Slice(tmpl, start, start + OpenAt) \o Wrap(expr')
    /\ emitted' = Append(emitted, expr')
    /\ path' = "plain"
    /\ start' = NextStart(start, OpenAt, CloseAt)
    /\ UNCHANGED <<tmpl, pc, i, tokens, rpn, newExpr>>
    /\ EvalUnchanged

\* a placeholder whose rewritten expression holds an operator character:
\* tokenize is entered
ScanOps ==
    /\ pc = "scan"
    /\ start < Len(tmpl)
    /\ OpenAt # -1
    /\ CloseAt # -1
    /\ ContainsAny(replaceVars(Interior), OperatorChars)
    /\ idx' = OpenAt
    /\ endIdx' = CloseAt
    /\ rawExpr' = Interior
    /\ expr' = replaceVars(Interior)
    /\ result' = result \o Slice(tmpl, start, start + OpenAt)
    /\ i' = 0
    /\ tokens' = <<>>
    /\ path' = "ops"
    /\ pc' = "tokenize"
    /\ UNCHANGED <<tmpl, start, rpn, newExpr, emitted>>
    /\ EvalUnchanged

\* one iteration of tokenize's loop
TokenizeStep ==
    /\ pc = "tokenize"
    /\ i < Len(expr)
    /\ Len(tokens) < MaxTokens
    /\ i' = tokenizeStep(expr, i, tokens).i
    /\ tokens' = tokenizeStep(expr, i, tokens).tokens
    /\ UNCHANGED <<tmpl, start, idx, endIdx, result, pc, rawExpr, expr, rpn, newExpr,
                   emitted, path>>
    /\ EvalUnchanged

\* tokenize has returned: the tokens are converted and the text written
Convert ==
    /\ pc = "tokenize"
    /\ i >= Len(expr)
    /\ rpn' = toRPN(parseTernary(tokens))
    /\ newExpr' = ReplaceAll(rpnToPipeline(rpn'), VARS, ROOTVARS)
    /\ result' = result \o Wrap(newExpr')
    /\ emitted' = Append(emitted, newExpr')
    /\ path' = "ops"
    /\ start' = NextStart(start, idx, endIdx)
    /\ pc' = "scan"
    /\ UNCHANGED <<tmpl, idx, endIdx, rawExpr, expr, i, tokens>>
    /\ EvalUnchanged

\* start has reached the end of the template: Preprocessor returns result
Return ==
    /\ pc = "scan"
    /\ start >= Len(tmpl)
    /\ pc' = "done"
    /\ UNCHANGED <<tmpl, start, idx, endIdx, result, rawExpr, expr, i, tokens, rpn,
                   newExpr, emitted, path>>
    /\ EvalUnchanged

Next ==
    \/ ScanText
    \/ ScanUnclosed
    \/ ScanPlain
    \/ ScanOps
    \/ TokenizeStep
    \/ Convert
    \/ Return

Spec == Init /\ [][Next]_vars

(***************************************************************************)
(* Evaluation: an arithmetic expression is compiled to pipeline text and   *)
(* run by the host engine, or a runtime function is called on operands.    *)
(* shape keeps the structure the expression text was built from: operand   *)
(* literals xs, operators ops (ops[k] between xs[k] and xs[k+1]), one pair *)
(* of parentheses around xs[lp..rp] (lp = 0: none), sp: spaces around the  *)
(* operators.                                                              *)
(***************************************************************************)
NumberTexts == {<<"0">>, <<"3">>, <<"1", "0">>}

ArithOps == {"+", "-", "*", "/"}

ParenPairs(n) == {<<0, 0>>} \cup {<<l, r>> \in (1..n) \X (1..n) : l < r}

Shape(xs, ops, lr, sp) ==
    [mode |-> "expr", xs |-> xs, ops |-> ops, lp |-> lr[1], rp |-> lr[2], sp |-> sp]

\* 2+3*4, (2+3)*4, 10-3-2 and 5/0, spaced and unspaced
ExampleShapes ==
    {Shape(<<<<"2">>, <<"3">>, <<"4">>>>, <<"+", "*">>, lr, sp) :
        lr \in {<<0, 0>>, <<1, 2>>}, sp \in BOOLEAN}
    \cup {Shape(<<<<"1", "0">>, <<"3">>, <<"2">>>>, <<"-", "-">>, <<0, 0>>, sp) :
             sp \in BOOLEAN}
    \cup {Shape(<<<<"5">>, <<"0">>>>, <<"/">>, <<0, 0>>, sp) : sp \in BOOLEAN}

\* sh is one of the examples, or n operands with any operators between them
\* and at most one pair of parentheses, n <= MaxOperands
IsInputShape(sh) ==
    \/ sh \in ExampleShapes
    \/ \E n \in 1..MaxOperands :
          \E xs \in [1..n -> NumberTexts], ops \in [1..(n - 1) -> ArithOps],
             lr \in ParenPairs(n) :
              sh = Shape(xs, ops, lr, TRUE)

\* the text of the expression from operand k on
RECURSIVE BuildFrom(_, _)
BuildFrom(sh, k) ==
    IF k > Len(sh.xs) THEN <<>>
    ELSE (IF k = sh.lp THEN <<"(">> ELSE <<>>)
         \o sh.xs[k]
         \o (IF k = sh.rp THEN <<")">> ELSE <<>>)
         \o (IF k < Len(sh.xs)
             THEN (IF sh.sp THEN <<" ", sh.ops[k], " ">> ELSE <<sh.ops[k]>>)
             ELSE <<>>)
         \o BuildFrom(sh, k + 1)

Build(sh) == BuildFrom(sh, 1)

\* the operands a runtime function is called on directly
Values ==
    {Invalid, RV(Zero), RV(<<2, 1>>), RV(<<5, 1>>), StrV(<<>>), StrV(<<"4">>),
     StrV(<<"a", "b">>), BoolV(FALSE), BoolV(TRUE)}

InitEval ==
    /\ tmpl = <<>>
    /\ start = 0
    /\ idx = 0
    /\ endIdx = 0
    /\ result = <<>>
    /\ rawExpr = <<>>
    /\ i = 0
    /\ tokens = <<>>
    /\ rpn = <<>>
    /\ newExpr = <<>>
    /\ emitted = <<>>
    /\ path = "none"
    /\ ret = Invalid
    /\ \/ /\ IsInputShape(shape)
          /\ expr = Build(shape)
          /\ vals = <<>>
          /\ pc = "compile"
       \/ /\ shape = NoShape
          /\ expr = <<>>
          /\ vals \in SeqsUpTo(Values, MaxArgs)
          /\ pc = "call"

PreprocessorUnchanged ==
    UNCHANGED <<tmpl, start, idx, endIdx, result, rawExpr, emitted, shape>>

\* tokenize -> parseTernary -> toRPN -> rpnToPipeline
Compile ==
    /\ pc = "compile"
    /\ tokens' = tokenize(expr)
    /\ i' = Len(expr)
    /\ rpn' = toRPN(parseTernary(tokens'))
    /\ newExpr' = rpnToPipeline(rpn')
    /\ pc' = "render"
    /\ UNCHANGED <<expr, path, vals, ret>>
    /\ PreprocessorUnchanged

\* the host engine runs the pipeline text
Evaluate ==
    /\ pc = "render"
    /\ ret' = Render(newExpr)
    /\ pc' = "rendered"
    /\ UNCHANGED <<expr, i, tokens, rpn, newExpr, path, vals>>
    /\ PreprocessorUnchanged

Call(fn, value) ==
    /\ pc = "call"
    /\ ret' = value
    /\ path' = fn
    /\ pc' = "returned"
    /\ UNCHANGED <<expr, i, tokens, rpn, newExpr, vals>>
    /\ PreprocessorUnchanged

CallAdd == Call("Add", Add(vals))

CallSub == Call("Sub", Sub(vals))

CallMul == Call("Mul", Mul(vals))

CallDiv == Call("Div", Div(vals))

CallNullish == Call("Nullish", Nullish(vals))

NextEval ==
    \/ Compile
    \/ Evaluate
    \/ CallAdd
    \/ CallSub
    \/ CallMul
    \/ CallDiv
    \/ CallNullish

SpecEval == InitEval /\ [][NextEval]_vars

(***************************************************************************)
(* Properties of the Preprocessor (specification Spec).                    *)
(***************************************************************************)
Last(q) == q[Len(q)]

\* the interiors of the closed placeholders of t, in order
RECURSIVE Interiors(_)
Interiors(t) ==
    LET p == Index(t, OPEN)
        q == Index(Suffix(t, p + 2), CLOSE)
    IN  IF p = -1 \/ q = -1 THEN <<>>
        ELSE <<Slice(t, p + 2, p + 2 + q)>> \o Interiors(Suffix(t, p + 2 + q + 2))

\* t with the interior of its k-th closed placeholder replaced by
\* " " \o em[k] \o " ", for every k, and nothing else changed
RECURSIVE Reassemble(_, _)
Reassemble(t, em) ==
    LET p == Index(t, OPEN)
        q == Index(Suffix(t, p + 2), CLOSE)
    IN  IF p = -1 \/ q = -1 THEN t
        ELSE Slice(t, 0, p) \o OPEN \o <<" ">> \o Head(em) \o <<" ">> \o CLOSE
             \o Reassemble(Suffix(t, p + 2 + q + 2), Tail(em))

\* C1: each time tokenize emits a token it has consumed at least one input
\* character (so that it terminates on every finite expression).
C1_TokenConsumesInput == [][Len(tokens') > Len(tokens) => i' > i]_vars

\* every `$name` reference of e is followed, after optional blanks, by an
\* assignment marker, and e has such a reference
DeclarationsOnly(e) ==
    LET ms == FindAllStringIndex(e)
    IN  /\ Len(ms) > 0
        /\ \A m \in 1..Len(ms) : IsAssignment(TrimLeft(Suffix(e, ms[m][2])))

\* C4: replaceVars returns an input whose `$name` references are all
\* declaration sites (`$a := 1`, `$a = 1`, `$a : 1`) byte for byte.
C4_DeclarationUntouched ==
    (pc = "tokenize" /\ DeclarationsOnly(rawExpr)) => expr = rawExpr

\* e with each `$identifier(.identifier)*` span replaced by `$.Vars.<path>`
\* and every other character kept
RECURSIVE RewriteRefs(_, _)
RewriteRefs(e, k) ==
    IF k >= Len(e) THEN <<>>
    ELSE IF MatchEnd(e, k) # -1
    THEN ROOTVARS \o Slice(e, k + 1, MatchEnd(e, k)) \o RewriteRefs(e, MatchEnd(e, k))
    ELSE <<e[k + 1]>> \o RewriteRefs(e, k + 1)

\* C5: for an expression E without operator characters the text written is
\* E with only its `$` references replaced by their `$.Vars.` form.
C5_PlainOnlyRefsRewritten ==
    (path = "plain" /\ pc \in {"scan", "done"}) => Last(emitted) = RewriteRefs(rawExpr, 0)

\* C6: when Preprocessor returns, its output is the template with only the
\* interior of each closed placeholder replaced by the text written for it,
\* one text per closed placeholder in order; an unclosed "{{" and all that
\* follows it are copied as they are.
C6_OutsideCopied ==
    pc = "done" =>
        /\ Len(emitted) = Len(Interiors(tmpl))
        /\ result = Reassemble(tmpl, emitted)

C6_Witness ==
    /\ pc = "done"
    /\ Len(emitted) = 1
    /\ endIdx = -1
    /\ result # tmpl
    /\ Index(tmpl, OPEN) > 0

\* the conversion of one placeholder interior, as Preprocessor's loop body
\* computes it
RpnOf(interior) == toRPN(parseTernary(tokenize(replaceVars(TrimSpace(interior)))))

HasOperator(interior) == ContainsAny(replaceVars(TrimSpace(interior)), OperatorChars)

Emit(interior) ==
    IF HasOperator(interior)
    THEN ReplaceAll(rpnToPipeline(RpnOf(interior)), VARS, ROOTVARS)
    ELSE ReplaceAll(replaceVars(TrimSpace(interior)), VARS, ROOTVARS)

\* the generator gave up on r for stack underflow or an unknown operator
AbortsOnOperator(r) == rpnWalk(r, 1, <<>>).abort \in {"underflow", "unknown"}

FallsBack(interior) == HasOperator(interior) /\ AbortsOnOperator(RpnOf(interior))

\* C9 as stated: the text written for a placeholder whose conversion aborts
\* on stack underflow or an unknown operator is its tokens, space-joined, in
\* source order.
C9_FallbackInSourceOrder ==
    pc = "done" =>
        \A k \in 1..Len(emitted) :
            FallsBack(Interiors(tmpl)[k]) =>
                emitted[k] =
                    tokensToString(tokenize(replaceVars(TrimSpace(Interiors(tmpl)[k]))))

\* C9 as amended: the text written for such a placeholder is its tokens in
\* postfix (RPN) order, space-joined, with `Vars.` root-qualified; the text
\* of every other placeholder is what its own interior yields.
C9_FallbackInRpnOrder ==
    pc = "done" =>
        \A k \in 1..Len(emitted) :
            emitted[k] =
                IF FallsBack(Interiors(tmpl)[k])
                THEN ReplaceAll(tokensToString(RpnOf(Interiors(tmpl)[k])), VARS, ROOTVARS)
                ELSE Emit(Interiors(tmpl)[k])

C9_Witness ==
    /\ pc = "done"
    /\ Len(emitted) = 2
    /\ FallsBack(Interiors(tmpl)[1])
    /\ ~FallsBack(Interiors(tmpl)[2])
    /\ HasOperator(Interiors(tmpl)[2])
    /\ emitted[1] # tokensToString(tokenize(Interiors(tmpl)[1]))

\* C10: an RPN sequence [x, T, op] with a Ternary pseudo-token T and a
\* binary operator op yields `x | fn T`.
C10_TernaryIsOperand ==
    (/\ path = "ops"
     /\ pc \in {"scan", "done"}
     /\ Len(rpn) = 3
     /\ rpn[1].typ \in {Var, Num}
     /\ rpn[2].typ = Tern
     /\ rpn[3].typ = Op
     /\ rpn[3].value \in OpMapKeys \ {<<"!">>})
    => newExpr = ReplaceAll(BinaryStage(rpn[1].value, opMap(rpn[3].value), rpn[2].value),
                            VARS, ROOTVARS)

(***************************************************************************)
(* Properties of the generated pipeline and of the runtime (specification  *)
(* SpecEval).  An infix value is a record: ok (no zero divisor met) and v. *)
(***************************************************************************)
Just(x) == [ok |-> TRUE, v |-> x]

Undefined == [ok |-> FALSE, v |-> Zero]

Apply(op, a, b) ==
    IF ~a.ok \/ ~b.ok THEN Undefined
    ELSE CASE op = "+" -> Just(FAdd(a.v, b.v))
           [] op = "-" -> Just(FSub(a.v, b.v))
           [] op = "*" -> Just(FMul(a.v, b.v))
           [] op = "/" -> IF b.v = Zero THEN Undefined ELSE Just(FDiv(a.v, b.v))

\* ((v1 op1 v2) op2 v3) ...: the operators applied strictly left to right
RECURSIVE FoldLeft(_, _, _, _)
FoldLeft(vs, os, k, acc) ==
    IF k > Len(os) THEN acc ELSE FoldLeft(vs, os, k + 1, Apply(os[k], acc, vs[k + 1]))

\* the products and quotients of a chain collapsed left to right into terms,
\* with the + and - left between the terms
RECURSIVE Terms(_, _, _, _, _, _)
Terms(vs, os, k, cur, terms, addops) ==
    IF k > Len(os) THEN [terms |-> Append(terms, cur), addops |-> addops]
    ELSE IF os[k] \in {"*", "/"}
    THEN Terms(vs, os, k + 1, Apply(os[k], cur, vs[k + 1]), terms, addops)
    ELSE Terms(vs, os, k + 1, vs[k + 1], Append(terms, cur), Append(addops, os[k]))

\* an unparenthesized chain under standard precedence
ChainValue(vs, os) ==
    LET t == Terms(vs, os, 1, vs[1], <<>>, <<>>)
    IN  FoldLeft(t.terms, t.addops, 1, t.terms[1])

OperandValues(sh) == [k \in 1..Len(sh.xs) |-> Just(NumberOf(sh.xs[k]))]

\* the value of the infix expression: the parenthesized part first
InfixValue(sh) ==
    LET vs == OperandValues(sh)
        n == Len(vs)
    IN  IF sh.lp = 0 THEN ChainValue(vs, sh.ops)
        ELSE LET inner == ChainValue(SubSeq(vs, sh.lp, sh.rp),
                                     SubSeq(sh.ops, sh.lp, sh.rp - 1))
             IN  ChainValue(SubSeq(vs, 1, sh.lp - 1) \o <<inner>> \o SubSeq(vs, sh.rp + 1, n),
                            SubSeq(sh.ops, 1, sh.lp - 1) \o SubSeq(sh.ops, sh.rp, n - 1))

\* C2: the pipeline generated for an arithmetic expression evaluates to the
\* value of the infix expression under standard precedence and its
\* parentheses (no zero divisor).
C2_PipelineKeepsPrecedence ==
    (pc = "rendered" /\ shape.mode = "expr" /\ InfixValue(shape).ok)
    => ret = RV(InfixValue(shape).v)

\* an unparenthesized chain of two operands or more, its operators of one
\* precedence level
IsChain(sh) ==
    /\ sh.mode = "expr"
    /\ Len(sh.xs) >= 2
    /\ sh.lp = 0
    /\ \/ \A k \in 1..Len(sh.ops) : sh.ops[k] \in {"+", "-"}
       \/ \A k \in 1..Len(sh.ops) : sh.ops[k] \in {"*", "/"}

\* ` | f(k) x(k+1) | ...` from operator k on
RECURSIVE ChainStages(_, _)
ChainStages(sh, k) ==
    IF k > Len(sh.ops) THEN <<>>
    ELSE PIPE \o opMap(<<sh.ops[k]>>) \o <<" ">> \o sh.xs[k + 1] \o ChainStages(sh, k + 1)

ChainText(sh) == sh.xs[1] \o ChainStages(sh, 1)

ChainFold(sh) == FoldLeft(OperandValues(sh), sh.ops, 1, OperandValues(sh)[1])

\* C3: a one-level chain x1 op1 x2 ... xn compiles to `x1 | f1 x2 | ... `
\* and, without a zero divisor, evaluates to ((x1 op1 x2) op2 x3) ...
C3_ChainLeftAssociative ==
    (pc = "rendered" /\ IsChain(shape))
    => /\ newExpr = ChainText(shape)
       /\ ChainFold(shape).ok => ret = RV(ChainFold(shape).v)

C3_Witness ==
    /\ pc = "rendered"
    /\ IsChain(shape)
    /\ expr = <<"1", "0", " ", "-", " ", "3", " ", "-", " ", "2">>
    /\ ret = RV(<<5, 1>>)

\* C7: Nullish(a, b) does not fault; it returns b when a is invalid or the
\* zero value of its type, and a itself otherwise.
C7_NullishTotal ==
    (pc = "returned" /\ path = "Nullish" /\ Len(vals) = 2)
    => /\ ret # Panic
       /\ ret = IF ~IsValid(vals[1]) \/ IsZero(vals[1]) THEN vals[2] ELSE vals[1]

\* left / d1 / d2 / ..., no divisor being zero
RECURSIVE Quotient(_, _)
Quotient(left, ds) ==
    IF ds = <<>> THEN left ELSE Quotient(FDiv(left, toFloatRV(Head(ds))), Tail(ds))

Divisors(vs) == SubSeq(vs, 1, Len(vs) - 1)

HasZeroDivisor(vs) == \E k \in 1..(Len(vs) - 1) : toFloatRV(vs[k]) = Zero

\* C8: Div(v1..vn), n >= 1, does not fault: it is 0 if a divisor v1..v(n-1)
\* coerces to 0 and vn / v1 / ... / v(n-1) otherwise; the pipeline of
\* `x / 0` evaluates to 0.
C8_DivByZeroIsZero ==
    /\ (pc = "returned" /\ path = "Div" /\ Len(vals) >= 1)
       => ret = IF HasZeroDivisor(vals) THEN RV(Zero)
                ELSE RV(Quotient(toFloatRV(Last(vals)), Divisors(vals)))
    /\ (/\ pc = "rendered"
        /\ shape.mode = "expr"
        /\ Len(shape.xs) = 2
        /\ shape.ops = <<"/">>
        /\ NumberOf(shape.xs[2]) = Zero)
       => ret = RV(Zero)

C8_Witness ==
    /\ pc = "returned"
    /\ path = "Div"
    /\ Len(vals) = 3
    /\ toFloatRV(vals[1]) # Zero
    /\ toFloatRV(vals[2]) = Zero
    /\ toFloatRV(vals[3]) # Zero
    /\ ret = RV(Zero)

====
